---- MODULE Spec2Model ----
(***************************************************************************)
(* riverrun uploader: the identity-scoped admission engine                 *)
(* (uploader/uploader.go).  The ledger (sqlite table user_stats), the      *)
(* audit file access.log, the candidate and storage directories and the    *)
(* goroutines that call processUpload are the state; every database        *)
(* statement and every file-system call of processUpload is one step, so   *)
(* that two evaluations interleave exactly where the Go code lets them.    *)
(* The streamer's /stream handler (the Go program carried in Dockerfile)   *)
(* is modelled next to it, one step per directory or file call.            *)
(***************************************************************************)
EXTENDS Integers, Sequences, FiniteSets, TLC

(* ---- configuration values ([uploader] section of the TOML file) ---- *)
StrikesBeforeTimeOut == 2
TimeOutsBeforeBan == 2
MaxUserUploadSize == 2
MaxUserAirtime == 3
\* the wall clock runs from 1 to MaxTime (0 is Go's zero time.Time)
MaxTime == 2
\* the transfer lines monitorSSHLogs finds before it reaches end-of-file
MaxLogLines == 1
\* the database and file-system calls that may fail in one run
MaxFaults == 2

AcceptedUploadFileTypes == {".mp3", ".ogg"}

(* ---- the world outside the program ---- *)
\* the goroutines that call processUpload: main's stdin loop, monitorSSHLogs
\* and monitorInboundDirectory
Workers == {"stdin", "sshlog", "watch"}
\* references to key material, as the event sources hand them over
KeyRefs == {"keyA", "keyB", "keyBad"}
Fingerprints == {"fpA", "fpB", "fpC"}
\* candidate files: path, size in bytes, and what ffprobe prints as duration
\* (seconds, in thousandths)
Files == {"a.mp3", "b.MP3", "c.txt"}
MiB == 1024 * 1024
FileBytes(f) ==
    CASE f = "a.mp3" -> MiB + 4096
      [] f = "b.MP3" -> 2 * MiB + (MiB \div 2)
      [] OTHER -> MiB
FfprobeMillis(f) ==
    CASE f = "a.mp3" -> 1500
      [] f = "b.MP3" -> 4500
      [] OTHER -> 1000

(* ---- the converter's directory and pure functions ---- *)
\* what may lie in the converter's upload directory: files with accepted and
\* other extensions, and a subdirectory
UploadEntries == {"a.mp3", "b.MP3", "c.txt", "sub"}
IsDir(e) == e = "sub"
\* [converter] AcceptedFileTypes as configured
ConverterAcceptedFileTypes == {".MP3", ".ogg"}
\* strings.ToLower on the strings that occur here
ToLower(s) == IF s = ".MP3" THEN ".mp3" ELSE IF s = ".OGG" THEN ".ogg" ELSE s
\* processFiles: acceptedTypes[strings.ToLower(ext)] = true
acceptedTypes == {ToLower(ext) : ext \in ConverterAcceptedFileTypes}
\* ioutil.ReadDir returns the entries sorted by name
NameRank(e) ==
    CASE e = "a.mp3" -> 1
      [] e = "b.MP3" -> 2
      [] e = "c.txt" -> 3
      [] OTHER -> 4
RECURSIVE ReadDir(_)
ReadDir(dir) ==
    IF dir = {} THEN <<>>
    ELSE LET e == CHOOSE x \in dir : \A y \in dir : NameRank(x) <= NameRank(y)
         IN <<e>> \o ReadDir(dir \ {e})

(* ---- pure functions of uploader.go ---- *)
\* filepath.Ext: the suffix from the last dot
Ext(fileName) ==
    CASE fileName = "a.mp3" -> ".mp3"
      [] fileName = "b.MP3" -> ".MP3"
      [] OTHER -> ".txt"
\* simple case folding of the strings that occur here
Fold(s) == IF s = ".MP3" THEN ".mp3" ELSE IF s = ".OGG" THEN ".ogg" ELSE s
EqualFold(s, t) == Fold(s) = Fold(t)

checkFileType(fileName) ==
    \E allowedType \in AcceptedUploadFileTypes :
        EqualFold(Ext(fileName), allowedType)

\* int(fileInfo.Size() / (1024 * 1024))
calculateFileSize(f) == FileBytes(f) \div MiB

\* fmt.Sscanf(text, "%f", &dest) with dest an int: the verb %f is not valid
\* for an integer operand, Sscanf returns an error (which the caller drops)
\* and stores nothing, so dest keeps the value it had
SscanfFloatVerbIntoInt(textMillis, dest) == dest

\* duration := 0; fmt.Sscanf(out.String(), "%f", &duration); return int(duration)
calculateAudioDuration(f) == SscanfFloatVerbIntoInt(FfprobeMillis(f), 0)

\* fingerprintSSHKey is called by processUpload but defined nowhere in the
\* sources at hand: a stable digest of readable key material, an error otherwise
fingerprintSSHKey(k) ==
    CASE k = "keyA" -> [err |-> FALSE, fingerprint |-> "fpA"]
      [] k = "keyB" -> [err |-> FALSE, fingerprint |-> "fpB"]
      [] k = "keyC" -> [err |-> FALSE, fingerprint |-> "fpC"]
      [] OTHER -> [err |-> TRUE, fingerprint |-> ""]

(* ---- the lines of auth.log ---- *)
\* a line, by what monitorSSHLogs and parseSSHLogLine look for in it: the
\* text "Accepted publickey", the text "scp", a token after "SHA256:" and a
\* quoted path after "scp:"
NoLine ==
    [accepted |-> FALSE, scp |-> FALSE, sha |-> FALSE, path |-> FALSE,
     token |-> "", file |-> ""]
LogLines ==
    {[accepted |-> a, scp |-> c, sha |-> h, path |-> q,
      token |-> IF h THEN "keyA" ELSE "", file |-> IF q THEN f ELSE ""] :
        a \in BOOLEAN, c \in BOOLEAN, h \in BOOLEAN, q \in BOOLEAN,
        f \in {"a.mp3", "c.txt"}}
\* strings.Contains(line, "scp") && strings.Contains(line, "Accepted publickey")
ContainsMarkers(line) == line.scp /\ line.accepted
\* variant: the number of submatches is not checked
parseSSHLogLine_NoLenCheck(line) ==
    [err |-> FALSE, fingerprint |-> line.token, filePath |-> line.file]
\* the regular expression finds its three submatches or the line is an error
parseSSHLogLine(line) ==
    IF line.accepted /\ line.sha /\ line.scp /\ line.path
    THEN [err |-> FALSE, fingerprint |-> line.token, filePath |-> line.file]
    ELSE [err |-> TRUE, fingerprint |-> "", filePath |-> ""]

(* ---- ledger rows and the in-memory UserData ---- *)
NullTime == [valid |-> FALSE, time |-> 0]
\* INSERT INTO user_stats (user) VALUES (?): every other column at its DEFAULT
DefaultRow ==
    [strikes |-> 0, timeouts |-> 0, daily_upload |-> 0, daily_airtime |-> 0,
     last_upload |-> NullTime]
\* &UserData{}
ZeroUserData ==
    [Strikes |-> 0, Timeouts |-> 0, DailyUpload |-> 0, DailyAirtime |-> 0,
     LastUpload |-> 0]
\* row.Scan(...) followed by the lastUpload.Valid test
ScanRow(row) ==
    [Strikes |-> row.strikes, Timeouts |-> row.timeouts,
     DailyUpload |-> row.daily_upload, DailyAirtime |-> row.daily_airtime,
     LastUpload |-> IF row.last_upload.valid THEN row.last_upload.time ELSE 0]
\* the column values the UPDATE statement binds
RowOf(ud) ==
    [strikes |-> ud.Strikes, timeouts |-> ud.Timeouts,
     daily_upload |-> ud.DailyUpload, daily_airtime |-> ud.DailyAirtime,
     last_upload |-> [valid |-> TRUE, time |-> ud.LastUpload]]

\* INSERT, UPDATE ... WHERE user = ?, DELETE ... WHERE user = ? on the table
InsertRow(table, user) ==
    [u \in DOMAIN table \cup {user} |->
        IF u = user THEN DefaultRow ELSE table[u]]
\* variant: the UPDATE has no WHERE clause
updateUserData_AllRows(table, user, ud) ==
    [u \in DOMAIN table |-> RowOf(ud)]
updateUserData(table, user, ud) ==
    IF user \in DOMAIN table THEN [table EXCEPT ![user] = RowOf(ud)] ELSE table
\* variant: the DELETE removes nothing
DeleteRow_Keep(table, user) == table
DeleteRow(table, user) == [u \in DOMAIN table \ {user} |-> table[u]]

\* logAction: one entry "<time> - <user>: <action>\n"; the time stamp is text
\* that nothing reads back and is left out
logEntry(user, action) == [user |-> user, action |-> action]
\* the length of the action text; the time stamp and the fingerprint before
\* it have the same length in every entry, and positions in an entry are
\* counted from the first character of the action
ActionLen(action) ==
    CASE action = "Attempted to upload unsupported file type" -> 41
      [] action = "Exceeded daily upload size limit" -> 32
      [] action = "Exceeded daily airtime limit" -> 28
      [] action = "File uploaded successfully" -> 26
      [] action = "User timed out" -> 14
      [] OTHER -> 11
\* access.log holds a sequence of pieces: a whole entry, or what is left of
\* an entry from position from on, after a shorter one was written over it
PieceFrom(piece) == IF "from" \in DOMAIN piece THEN piece.from ELSE 0
PieceLen(piece) == ActionLen(piece.action) + 1 - PieceFrom(piece)
\* content without its first n characters
RECURSIVE Beyond(_, _)
Beyond(content, n) ==
    IF content = <<>> \/ n = 0 THEN content
    ELSE LET h == Head(content) IN
         IF n >= PieceLen(h) THEN Beyond(Tail(content), n - PieceLen(h))
         ELSE <<[user |-> h.user, action |-> h.action,
                 from |-> PieceFrom(h) + n]>> \o Tail(content)
\* ioutil.WriteFile is os.OpenFile, Write and Close. The open has the flags
\* O_WRONLY|O_CREATE|O_TRUNC and empties the file (os.ModeAppend is the
\* permission argument here, not an open flag)
OpenTrunc(content) == <<>>
\* the Write, at position 0 of this descriptor: it replaces what the file
\* holds there and leaves what lies beyond the data
WriteAtStart(content, data) == <<data>> \o Beyond(content, PieceLen(data))

\* variant: the strikes are not reset
timeOutUserData_KeepStrikes(ud) == [ud EXCEPT !.Timeouts = ud.Timeouts + 1]
\* timeOutUser's change of the in-memory record
timeOutUserData(ud) ==
    [ud EXCEPT !.Timeouts = ud.Timeouts + 1, !.Strikes = 0]

\* the in-memory strike of a rejection
strike(ud) == [ud EXCEPT !.Strikes = ud.Strikes + 1]

\* the in-memory charge of an admission
charge(ud, size, dur, t) ==
    [ud EXCEPT !.DailyUpload = ud.DailyUpload + size,
               !.DailyAirtime = ud.DailyAirtime + dur,
               !.LastUpload = t]

\* variant: the size check runs before any type check
AfterLoad_SizeFirst(f) == "size"
\* where processUpload goes once the row is loaded: the type check comes first
AfterLoad(f) == IF ~checkFileType(f) THEN "rejectType" ELSE "size"
\* the size and the airtime comparison
AfterSize(ud, size) ==
    IF ud.DailyUpload + size > MaxUserUploadSize THEN "rejectSize" ELSE "duration"
AfterDuration(ud, dur) ==
    IF ud.DailyAirtime + dur > MaxUserAirtime THEN "rejectAirtime" ELSE "move"
\* after the strike and its audit entry
AfterStrike(ud) ==
    IF ud.Strikes >= StrikesBeforeTimeOut THEN "timeOutUser" ELSE "update"
\* timeOutUser's test after the increment
BanReached(ud) == ud.Timeouts >= TimeOutsBeforeBan

\* variant: a file over the size quota is removed
InboundAfterReject_Remove(files, f, p) ==
    IF p = "rejectSize" THEN files \ {f} ELSE files
\* what a rejection does to the candidate file: no branch of processUpload
\* that rejects removes or moves it
InboundAfterReject(files, f, p) == files

\* logAction between its open and its Write, for each place that calls it
WritePcs == {"writeRejectType", "writeRejectSize", "writeRejectAirtime",
             "writeTimeout", "writeBan", "writeAdmit"}
WritePcOf(p) ==
    CASE p = "rejectType" -> "writeRejectType"
      [] p = "rejectSize" -> "writeRejectSize"
      [] p = "rejectAirtime" -> "writeRejectAirtime"
      [] p = "timeOutUser" -> "writeTimeout"
      [] p = "banUserLog" -> "writeBan"
      [] OTHER -> "writeAdmit"
\* the action text of the entry being written
PendingAction(p) ==
    CASE p = "writeRejectType" -> "Attempted to upload unsupported file type"
      [] p = "writeRejectSize" -> "Exceeded daily upload size limit"
      [] p = "writeRejectAirtime" -> "Exceeded daily airtime limit"
      [] p = "writeTimeout" -> "User timed out"
      [] p = "writeBan" -> "User banned"
      [] OTHER -> "File uploaded successfully"
\* where the caller of logAction goes on
AfterWrite(p, ud) ==
    CASE p \in {"writeRejectType", "writeRejectSize", "writeRejectAirtime"} ->
             AfterStrike(ud)
      [] p = "writeTimeout" -> "timeOutUpdate"
      [] p = "writeBan" -> "update"
      [] OTHER -> "persist"

RejectReason(p) ==
    CASE p = "rejectType" -> "Attempted to upload unsupported file type"
      [] p = "rejectSize" -> "Exceeded daily upload size limit"
      [] OTHER -> "Exceeded daily airtime limit"
RejectOutcome(p) ==
    CASE p = "rejectType" -> "RejectedUnsupportedType"
      [] p = "rejectSize" -> "RejectedSizeQuota"
      [] OTHER -> "RejectedAirtimeQuota"

(* ---- the streamer (Go source in Dockerfile) ---- *)
\* the files that may show up in the streamer's storage directory, and the
\* order of their modification times
StreamFiles == {"s1.ogg", "s2.ogg", "n.txt"}
ModTime(f) ==
    CASE f = "s1.ogg" -> 1
      [] f = "s2.ogg" -> 2
      [] OTHER -> 0
\* strings.HasSuffix(file.Name(), ".ogg")
HasOggSuffix(f) == f \in {"s1.ogg", "s2.ogg"}
\* getOldestFile: the .ogg file with the earliest modification time, "" when
\* there is none
getOldestFile(dir) ==
    LET oggs == {f \in dir : HasOggSuffix(f)} IN
    IF oggs = {} THEN ""
    ELSE CHOOSE f \in oggs : \A g \in oggs : ModTime(f) <= ModTime(g)
\* isFileReady: for i := 0; i < 5; i++
MaxOpenAttempts == 5
\* variant: one attempt more (i <= 5)
MoreAttempts_OffByOne(i) == i < MaxOpenAttempts + 1
MoreAttempts(i) == i < MaxOpenAttempts
\* os.Open succeeds on a file that is there and can be opened
OpenOk(dir, readable, f) == f \in dir /\ f \in readable

(* ---- state ---- *)
VARIABLES
    db,         \* user_stats: fingerprint -> row, for the rows that exist
    accessLog,  \* the entries access.log holds
    inbound,    \* the files present at their candidate path
    storage,    \* the files present in the storage directory
    now,        \* the wall clock
    pc,         \* per goroutine: where it is in processUpload
    cand,       \* per goroutine: (sshKeyPath, filePath) being evaluated
    fp,         \* per goroutine: the fingerprint
    userData,   \* per goroutine: *UserData
    fileSize,   \* per goroutine: fileSize
    duration,   \* per goroutine: duration
    fault,      \* the next database or file-system call fails
    faultsLeft, \* failures the environment may still cause
    logLeft,    \* transfer lines of auth.log that monitorSSHLogs has not read yet
    watchLeft,  \* the files lying in the inbound directory for which
                \* monitorInboundDirectory has not emitted a candidate yet
    banned,     \* observation only: identities whose row a ban deleted, until
                \* a row is created for them again
    movedFor,   \* observation only: the identity each stored file was moved
                \* for, and whether that identity's row is still the same one
    obs,        \* per goroutine: what this evaluation did (observation only)
    streamDir,  \* streamer: the files present in its storage directory
    openable,   \* streamer: the files os.Open succeeds on at the moment
    lastStreamedFile, \* streamer: lastStreamedFile
    hpc,        \* streamer: where the /stream handler is ("idle": no request
                \* holds the mutex)
    filePath,   \* streamer: filePath of the handler's loop
    attempt,    \* streamer: i of isFileReady's loop
    sent,       \* observation only: the files streamFile has sent
    notReady,   \* observation only: the files isFileReady reported not ready
    uploadDir,  \* converter: the entries present in its upload directory
    cpc,        \* converter: where processFiles is
    entries,    \* converter: the entries of the last ReadDir still to visit
    cfile,      \* converter: file of the inner loop
    convResult  \* converter: what convertFile returned for cfile ("none"
                \* before it has run)

streamerVars == <<streamDir, openable, lastStreamedFile, hpc, filePath,
                  attempt, sent, notReady>>
uploaderVars == <<db, accessLog, inbound, storage, now, pc, cand, fp, userData,
                  fileSize, duration, fault, faultsLeft, logLeft, watchLeft,
                  banned, movedFor, obs>>
converterVars == <<uploadDir, cpc, entries, cfile, convResult>>
vars == <<uploaderVars, streamerVars, converterVars>>

NoCand == [key |-> "", file |-> ""]
\* observation of one evaluation: the decision, the row as loaded (or created),
\* the probes made, the escalation taken, the row as this evaluation last read
\* or wrote it, the actions it passed to logAction, whether the row it
\* looked for had been deleted by a ban, the auth.log line it came from, and
\* what the goroutine did with its previous input when that was not a plain
\* evaluation ("ignoredLine", "malformedLine", "credentialError",
\* "storeFailure"), the calls that failed and the messages log.Printf wrote
NoObs ==
    [outcome |-> "none", loaded |-> DefaultRow, created |-> FALSE,
     statted |-> FALSE, probed |-> FALSE, escalation |-> "none",
     seen |-> [present |-> FALSE, row |-> DefaultRow],
     wrote |-> <<>>, afterBan |-> FALSE,
     line |-> NoLine, prev |-> "",
     failed |-> {}, printed |-> {}]

\* the streamer after main has registered the handler: nothing streamed yet
InitStreamer ==
    /\ streamDir = {}
    /\ openable = StreamFiles
    /\ lastStreamedFile = ""
    /\ hpc = "idle"
    /\ filePath = ""
    /\ attempt = 0
    /\ sent = {}
    /\ notReady = {}

\* the converter before its first ReadDir
InitConverter ==
    /\ uploadDir = {}
    /\ cpc = "read"
    /\ entries = <<>>
    /\ cfile = ""
    /\ convResult = "none"

InitProgram ==
    /\ db = [u \in {} |-> DefaultRow]
    /\ accessLog = <<>>
    /\ inbound = Files
    /\ storage = {}
    /\ now = 1
    /\ pc = [w \in Workers |-> "idle"]
    /\ cand = [w \in Workers |-> NoCand]
    /\ fp = [w \in Workers |-> ""]
    /\ userData = [w \in Workers |-> ZeroUserData]
    /\ fileSize = [w \in Workers |-> 0]
    /\ duration = [w \in Workers |-> 0]
    /\ movedFor = [f \in Files |-> [user |-> "", sameRow |-> FALSE]]
    /\ banned = {}
    /\ obs = [w \in Workers |-> NoObs]
    /\ fault = FALSE
    /\ InitStreamer
    /\ InitConverter

\* auth.log holds MaxLogLines transfer lines when monitorSSHLogs opens it
\* and every call succeeds
Init ==
    InitProgram /\ logLeft = MaxLogLines /\ watchLeft = {} /\ faultsLeft = 0
\* the same with one file lying in the inbound directory
InitThree ==
    /\ InitProgram /\ logLeft = MaxLogLines /\ faultsLeft = 0
    /\ watchLeft = {"c.txt"}
\* auth.log holds no transfer line: only the stdin loop evaluates candidates
InitSeq == InitProgram /\ logLeft = 0 /\ watchLeft = {} /\ faultsLeft = 0
\* the same, and up to MaxFaults calls fail
InitFault ==
    InitProgram /\ logLeft = 0 /\ watchLeft = {} /\ faultsLeft = MaxFaults

\* the observation o after a call that succeeded or not: a failed call is
\* recorded with the messages the code prints for it
Noted(o, ok, call, msgs) ==
    IF ok THEN o
    ELSE [o EXCEPT !.failed = @ \cup {call}, !.printed = @ \cup msgs]

\* variant: a failed getUserData ends the process (log.Fatalf)
OnLedgerError_Fatal == "exited"
\* processUpload on an error of getUserData: log.Printf and return
OnLedgerError == "done"

\* getUserData failed in the named statement: the error is printed, outcome
\* o is recorded and the evaluation ends
Return(w, o, call) ==
    /\ pc' = [pc EXCEPT ![w] = OnLedgerError]
    /\ obs' = [obs EXCEPT ![w] =
                  Noted([obs[w] EXCEPT !.outcome = o], FALSE, call,
                        {"Error fetching user data"})]

\* variant: the error of fingerprintSSHKey is not looked at
AfterFingerprint_Ignore(err) == "select"
\* processUpload returns when the fingerprint cannot be computed
AfterFingerprint(err) == IF err THEN "done" ELSE "select"

\* variant: an audit entry that cannot be written ends the evaluation
AfterLogAction_Abort(ok, next) == IF ok THEN next ELSE "done"
\* logAction returns nothing: its caller goes on whether the write succeeded
\* or not
AfterLogAction(ok, next) == next

\* logAction after the open of ioutil.WriteFile: the Write when the file was
\* opened, otherwise the error is printed and the caller goes on
AfterOpen(ok, p, next) ==
    IF ok THEN WritePcOf(p) ELSE AfterLogAction(FALSE, next)

\* variant: os.Stat never reports a missing file
Exists_Always(files, f) == TRUE
\* os.Stat, ffprobe and os.Rename need the file at its path
Exists(files, f) == f \in files

(* ---- processUpload, one step per database statement or file-system call ---- *)

\* processUpload is entered with (sshKeyPath, filePath) and resolves the
\* fingerprint first
Enter(w, k, f, line) ==
    /\ cand' = [cand EXCEPT ![w] = [key |-> k, file |-> f]]
    /\ LET r == fingerprintSSHKey(k)
           fresh == [NoObs EXCEPT !.line = line, !.prev = obs[w].prev] IN
         /\ pc' = [pc EXCEPT ![w] = AfterFingerprint(r.err)]
         /\ fp' = [fp EXCEPT ![w] = r.fingerprint]
         /\ obs' = [obs EXCEPT ![w] =
                       IF r.err
                       THEN Noted([fresh EXCEPT !.outcome = "CredentialUnreadable"],
                                  FALSE, "fingerprint",
                                  {"Error calculating SSH key fingerprint"})
                       ELSE fresh]
    /\ UNCHANGED <<db, accessLog, inbound, storage, now, userData, fileSize,
                   duration, banned, movedFor,
                   fault, faultsLeft>>
    /\ UNCHANGED <<streamerVars, converterVars>>

\* an event source hands (sshKeyPath, filePath) to processUpload: a line of
\* standard input or, for monitorSSHLogs, a transfer line of auth.log
Begin(w, k, f) ==
    /\ pc[w] = "idle"
    /\ w # "watch"
    /\ w = "sshlog" => logLeft > 0
    /\ logLeft' = IF w = "sshlog" THEN logLeft - 1 ELSE logLeft
    /\ UNCHANGED watchLeft
    /\ Enter(w, k, f, NoLine)

\* the directory watcher: a file that has appeared in the inbound directory
\* is handed to processUpload, once, with the key reference the watcher
\* has for it
monitorInboundDirectory(k, f) ==
    /\ pc["watch"] = "idle"
    /\ f \in watchLeft
    /\ watchLeft' = watchLeft \ {f}
    /\ UNCHANGED logLeft
    /\ Enter("watch", k, f, NoLine)

\* monitorSSHLogs: scanner.Scan() delivers the next line of auth.log; a line
\* without both markers is passed over, a line that does not parse is
\* reported and passed over, any other is handed to processUpload
ScanLine(line) ==
    /\ pc["sshlog"] = "idle"
    /\ logLeft > 0
    /\ logLeft' = logLeft - 1
    /\ UNCHANGED watchLeft
    /\ IF ContainsMarkers(line) /\ ~parseSSHLogLine(line).err
       THEN Enter("sshlog", parseSSHLogLine(line).fingerprint,
                  parseSSHLogLine(line).filePath, line)
       ELSE /\ obs' = [obs EXCEPT !["sshlog"].prev =
                          IF ContainsMarkers(line)
                          THEN "malformedLine" ELSE "ignoredLine"]
            /\ UNCHANGED <<db, accessLog, inbound, storage, now, pc, cand,
                           fp, userData, fileSize, duration, banned,
                           movedFor, fault, faultsLeft>>
            /\ UNCHANGED <<streamerVars, converterVars>>

\* monitorSSHLogs: scanner.Scan() returns false at end-of-file, the loop
\* ends and the function returns
Eof ==
    /\ pc["sshlog"] = "idle"
    /\ logLeft = 0
    /\ pc' = [pc EXCEPT !["sshlog"] = "returned"]
    /\ UNCHANGED <<db, accessLog, inbound, storage, now, cand, fp, userData,
                   fileSize, duration, fault, faultsLeft, logLeft, watchLeft, banned,
                   movedFor, obs>>
    /\ UNCHANGED <<streamerVars, converterVars>>

\* sshd appends a line to auth.log
AppendLine ==
    /\ logLeft < MaxLogLines
    /\ logLeft' = logLeft + 1
    /\ UNCHANGED watchLeft
    /\ UNCHANGED <<db, accessLog, inbound, storage, now, pc, cand, fp,
                   userData, fileSize, duration, fault, faultsLeft, banned,
                   movedFor, obs>>
    /\ UNCHANGED <<streamerVars, converterVars>>

\* getUserData: the SELECT and its Scan
Select(w) ==
    /\ pc[w] = "select"
    /\ LET ok == ~fault IN
         IF ~ok
         THEN Return(w, "LedgerError", "select") /\ UNCHANGED userData
         ELSE IF fp[w] \in DOMAIN db
         THEN /\ userData' = [userData EXCEPT ![w] = ScanRow(db[fp[w]])]
              /\ pc' = [pc EXCEPT ![w] = AfterLoad(cand[w].file)]
              /\ obs' = [obs EXCEPT ![w].loaded = db[fp[w]],
                                     ![w].seen = [present |-> TRUE,
                                                  row |-> db[fp[w]]]]
         ELSE /\ pc' = [pc EXCEPT ![w] = "insert"]
              /\ obs' = [obs EXCEPT ![w].afterBan = fp[w] \in banned]
              /\ UNCHANGED userData
    /\ fault' = FALSE
    /\ UNCHANGED <<db, accessLog, inbound, storage, now, cand, fp, fileSize,
                   duration, faultsLeft, logLeft, watchLeft, banned, movedFor>>
    /\ UNCHANGED <<streamerVars, converterVars>>

\* getUserData: sql.ErrNoRows, so the INSERT of the default row; user is the
\* PRIMARY KEY, so the INSERT fails when the row has appeared meanwhile
Insert(w) ==
    /\ pc[w] = "insert"
    /\ LET ok == ~fault IN
         IF ok /\ fp[w] \notin DOMAIN db
         THEN /\ db' = InsertRow(db, fp[w])
              /\ banned' = banned \ {fp[w]}
              /\ movedFor' = [f \in Files |->
                                 IF movedFor[f].user = fp[w]
                                 THEN [movedFor[f] EXCEPT !.sameRow = FALSE]
                                 ELSE movedFor[f]]
              /\ userData' = [userData EXCEPT ![w] = ZeroUserData]
              /\ pc' = [pc EXCEPT ![w] = AfterLoad(cand[w].file)]
              /\ obs' = [obs EXCEPT ![w].loaded = DefaultRow,
                                     ![w].created = TRUE,
                                     ![w].seen = [present |-> TRUE,
                                                  row |-> DefaultRow]]
         ELSE /\ Return(w, "LedgerError", "insert")
              /\ UNCHANGED <<db, userData, banned, movedFor>>
    /\ fault' = FALSE
    /\ UNCHANGED <<accessLog, inbound, storage, now, cand, fp, fileSize,
                   duration, faultsLeft, logLeft, watchLeft>>
    /\ UNCHANGED <<streamerVars, converterVars>>

\* a failed check: userData.Strikes++ and the audit entry of the reason
Reject(w) ==
    /\ pc[w] \in {"rejectType", "rejectSize", "rejectAirtime"}
    /\ userData' = [userData EXCEPT ![w] = strike(userData[w])]
    /\ accessLog' = IF ~fault THEN OpenTrunc(accessLog) ELSE accessLog
    /\ pc' = [pc EXCEPT ![w] = AfterOpen(~fault, pc[w], AfterStrike(userData'[w]))]
    /\ obs' = [obs EXCEPT ![w] =
                  Noted([obs[w] EXCEPT !.outcome = RejectOutcome(pc[w]),
                                       !.wrote = Append(@, RejectReason(pc[w]))],
                        ~fault, "log", {"Failed to log action"})]
    /\ inbound' = InboundAfterReject(inbound, cand[w].file, pc[w])
    /\ fault' = FALSE
    /\ UNCHANGED <<db, storage, now, cand, fp, fileSize, duration,
                   faultsLeft, logLeft, watchLeft, banned, movedFor>>
    /\ UNCHANGED <<streamerVars, converterVars>>

\* timeOutUser: the increment, the reset, and then either banUser's DELETE
\* or the "User timed out" entry
TimeOutUser(w) ==
    /\ pc[w] = "timeOutUser"
    /\ userData' = [userData EXCEPT ![w] = timeOutUserData(userData[w])]
    /\ LET ok == ~fault IN
         IF BanReached(userData'[w])
         THEN /\ db' = IF ok THEN DeleteRow(db, fp[w]) ELSE db
              /\ banned' = IF ok /\ fp[w] \notin DOMAIN db'
                           THEN banned \cup {fp[w]} ELSE banned
              /\ accessLog' = accessLog
              /\ pc' = [pc EXCEPT ![w] = "banUserLog"]
              /\ obs' = [obs EXCEPT ![w] =
                            Noted([obs[w] EXCEPT
                                      !.escalation = "ban",
                                      !.seen = IF ok
                                               THEN [present |-> FALSE,
                                                     row |-> DefaultRow]
                                               ELSE obs[w].seen],
                                  ok, "delete",
                                  {"Failed to delete user from database"})]
         ELSE /\ db' = db
              /\ banned' = banned
              /\ accessLog' = IF ok THEN OpenTrunc(accessLog) ELSE accessLog
              /\ pc' = [pc EXCEPT ![w] = AfterOpen(ok, pc[w], "timeOutUpdate")]
              /\ obs' = [obs EXCEPT ![w] =
                            Noted([obs[w] EXCEPT
                                      !.escalation = "timeout",
                                      !.wrote = Append(@, "User timed out")],
                                  ok, "log", {"Failed to log action"})]
    /\ fault' = FALSE
    /\ UNCHANGED <<inbound, storage, now, cand, fp, fileSize, duration,
                   faultsLeft, logLeft, watchLeft, movedFor>>
    /\ UNCHANGED <<streamerVars, converterVars>>

\* banUser: the "User banned" entry; timeOutUser then returns
BanUserLog(w) ==
    /\ pc[w] = "banUserLog"
    /\ accessLog' = IF ~fault THEN OpenTrunc(accessLog) ELSE accessLog
    /\ pc' = [pc EXCEPT ![w] = AfterOpen(~fault, pc[w], "update")]
    /\ obs' = [obs EXCEPT ![w] =
                  Noted([obs[w] EXCEPT !.wrote = Append(@, "User banned")],
                        ~fault, "log", {"Failed to log action"})]
    /\ fault' = FALSE
    /\ UNCHANGED <<db, inbound, storage, now, cand, fp, userData, fileSize,
                   duration, faultsLeft, logLeft, watchLeft, banned, movedFor>>
    /\ UNCHANGED <<streamerVars, converterVars>>

\* logAction: the Write and Close of ioutil.WriteFile on the file opened
\* before; the error is printed and the caller goes on
LogWrite(w) ==
    /\ pc[w] \in WritePcs
    /\ LET ok == ~fault IN
         /\ accessLog' = IF ok
                          THEN WriteAtStart(accessLog,
                                            logEntry(fp[w], PendingAction(pc[w])))
                          ELSE accessLog
         /\ pc' = [pc EXCEPT ![w] =
                       AfterLogAction(ok, AfterWrite(pc[w], userData[w]))]
         /\ obs' = [obs EXCEPT ![w] =
                       Noted(obs[w], ok, "log", {"Failed to log action"})]
    /\ fault' = FALSE
    /\ UNCHANGED <<db, inbound, storage, now, cand, fp, userData, fileSize,
                   duration, faultsLeft, logLeft, watchLeft, banned, movedFor>>
    /\ UNCHANGED <<streamerVars, converterVars>>

\* the row is written from the in-memory record; the error is dropped
WriteBack(w, next) ==
    /\ LET ok == ~fault IN
         /\ db' = IF ok THEN updateUserData(db, fp[w], userData[w]) ELSE db
         /\ obs' = [obs EXCEPT ![w] =
                       Noted([obs[w] EXCEPT !.seen =
                                 IF ok /\ fp[w] \in DOMAIN db
                                 THEN [present |-> TRUE,
                                       row |-> RowOf(userData[w])]
                                 ELSE obs[w].seen],
                             ok, "update", {})]
    /\ pc' = [pc EXCEPT ![w] = next]
    /\ fault' = FALSE
    /\ UNCHANGED <<accessLog, inbound, storage, now, cand, fp, userData,
                   fileSize, duration, faultsLeft, logLeft, watchLeft, banned, movedFor>>
    /\ UNCHANGED <<streamerVars, converterVars>>

\* timeOutUser: _ = updateUserData(user, userData)
TimeOutUpdate(w) ==
    /\ pc[w] = "timeOutUpdate"
    /\ WriteBack(w, "update")

\* processUpload after a rejection: _ = updateUserData(fingerprint, userData)
Update(w) ==
    /\ pc[w] = "update"
    /\ WriteBack(w, "done")

\* variant: a failed measurement is treated as a failed check
OnMeasureError_Strike == "rejectSize"
\* processUpload when calculateFileSize or calculateAudioDuration returns an
\* error: log.Printf and return
OnMeasureError == "done"

\* calculateFileSize (os.Stat) and the size comparison
Size(w) ==
    /\ pc[w] = "size"
    /\ LET ok == ~fault IN
         IF ok /\ Exists(inbound, cand[w].file)
         THEN /\ fileSize' = [fileSize EXCEPT ![w] = calculateFileSize(cand[w].file)]
              /\ pc' = [pc EXCEPT ![w] = AfterSize(userData[w], fileSize'[w])]
              /\ obs' = [obs EXCEPT ![w].statted = TRUE]
         ELSE /\ pc' = [pc EXCEPT ![w] = OnMeasureError]
              /\ obs' = [obs EXCEPT ![w] =
                            Noted([obs[w] EXCEPT !.statted = TRUE,
                                                 !.outcome = "SizeError"],
                                  FALSE, "stat",
                                  {"Error calculating file size"})]
              /\ UNCHANGED fileSize
    /\ fault' = FALSE
    /\ UNCHANGED <<db, accessLog, inbound, storage, now, cand, fp, userData,
                   duration, faultsLeft, logLeft, watchLeft, banned, movedFor>>
    /\ UNCHANGED <<streamerVars, converterVars>>
\* calculateAudioDuration (ffprobe) and the airtime comparison
Duration(w) ==
    /\ pc[w] = "duration"
    /\ LET ok == ~fault IN
         IF ok /\ cand[w].file \in inbound
         THEN /\ duration' = [duration EXCEPT ![w] =
                                 calculateAudioDuration(cand[w].file)]
              /\ pc' = [pc EXCEPT ![w] = AfterDuration(userData[w], duration'[w])]
              /\ obs' = [obs EXCEPT ![w].probed = TRUE]
         ELSE /\ pc' = [pc EXCEPT ![w] = OnMeasureError]
              /\ obs' = [obs EXCEPT ![w] =
                            Noted([obs[w] EXCEPT !.probed = TRUE,
                                                 !.outcome = "DurationError"],
                                  FALSE, "probe",
                                  {"Error calculating audio duration"})]
              /\ UNCHANGED duration
    /\ fault' = FALSE
    /\ UNCHANGED <<db, accessLog, inbound, storage, now, cand, fp, userData,
                   fileSize, faultsLeft, logLeft, watchLeft, banned, movedFor>>
    /\ UNCHANGED <<streamerVars, converterVars>>

\* variant: the error of os.Rename is ignored
AfterRename_Ignore(renamed) == "logAdmit"
\* where processUpload goes after os.Rename
AfterRename(renamed) == IF renamed THEN "logAdmit" ELSE "done"

\* the in-memory charge, then os.Rename into the storage directory
Move(w) ==
    /\ pc[w] = "move"
    /\ userData' = [userData EXCEPT ![w] =
                       charge(userData[w], fileSize[w], duration[w], now)]
    /\ LET ok == ~fault IN
         LET renamed == ok /\ cand[w].file \in inbound IN
         /\ inbound' = IF renamed THEN inbound \ {cand[w].file} ELSE inbound
         /\ storage' = IF renamed THEN storage \cup {cand[w].file} ELSE storage
         /\ movedFor' = IF renamed
                         THEN [movedFor EXCEPT ![cand[w].file] =
                                  [user |-> fp[w], sameRow |-> TRUE]]
                         ELSE movedFor
         /\ pc' = [pc EXCEPT ![w] = AfterRename(renamed)]
         /\ obs' = [obs EXCEPT ![w] =
                       Noted([obs[w] EXCEPT !.outcome =
                                 IF renamed THEN "Admitted" ELSE "MoveError"],
                             renamed, "rename",
                             {"Error moving file to storage directory"})]
    /\ fault' = FALSE
    /\ UNCHANGED <<db, accessLog, now, cand, fp, fileSize, duration,
                   faultsLeft, logLeft, watchLeft, banned>>
    /\ UNCHANGED <<streamerVars, converterVars>>

\* logAction(fingerprint, "File uploaded successfully")
LogAdmit(w) ==
    /\ pc[w] = "logAdmit"
    /\ accessLog' = IF ~fault THEN OpenTrunc(accessLog) ELSE accessLog
    /\ pc' = [pc EXCEPT ![w] = AfterOpen(~fault, pc[w], "persist")]
    /\ obs' = [obs EXCEPT ![w] =
                  Noted([obs[w] EXCEPT
                            !.wrote = Append(@, "File uploaded successfully")],
                        ~fault, "log", {"Failed to log action"})]
    /\ fault' = FALSE
    /\ UNCHANGED <<db, inbound, storage, now, cand, fp, userData, fileSize,
                   duration, faultsLeft, logLeft, watchLeft, banned, movedFor>>
    /\ UNCHANGED <<streamerVars, converterVars>>

\* processUpload's last statement: _ = updateUserData(fingerprint, userData)
Persist(w) ==
    /\ pc[w] = "persist"
    /\ WriteBack(w, "done")

\* what is remembered of an evaluation that has ended
PrevOf(o) ==
    IF o.outcome = "CredentialUnreadable" THEN "credentialError"
    ELSE IF o.failed \cap {"select", "insert", "update", "delete"} # {}
    THEN "storeFailure"
    ELSE ""

\* processUpload has returned; the caller's loop takes its next line
Finish(w) ==
    /\ pc[w] = "done"
    /\ pc' = [pc EXCEPT ![w] = "idle"]
    /\ cand' = [cand EXCEPT ![w] = NoCand]
    /\ fp' = [fp EXCEPT ![w] = ""]
    /\ userData' = [userData EXCEPT ![w] = ZeroUserData]
    /\ fileSize' = [fileSize EXCEPT ![w] = 0]
    /\ duration' = [duration EXCEPT ![w] = 0]
    /\ obs' = [obs EXCEPT ![w] = [NoObs EXCEPT !.prev = PrevOf(obs[w])]]
    /\ UNCHANGED <<db, accessLog, inbound, storage, now, logLeft, watchLeft, banned, movedFor,
                   fault, faultsLeft>>
    /\ UNCHANGED <<streamerVars, converterVars>>

\* time passes
Tick ==
    /\ now < MaxTime
    /\ now' = now + 1
    /\ UNCHANGED <<db, accessLog, inbound, storage, pc, cand, fp, userData,
                   fileSize, duration, logLeft, watchLeft, banned, movedFor, obs,
                   fault, faultsLeft>>
    /\ UNCHANGED <<streamerVars, converterVars>>

\* one step of processUpload by goroutine w
ProcessStep(w) ==
    \/ Select(w)
    \/ Insert(w)
    \/ Reject(w)
    \/ TimeOutUser(w)
    \/ BanUserLog(w)
    \/ LogWrite(w)
    \/ TimeOutUpdate(w)
    \/ Update(w)
    \/ Size(w)
    \/ Duration(w)
    \/ Move(w)
    \/ LogAdmit(w)
    \/ Persist(w)
    \/ Finish(w)

\* the environment makes the next database or file-system call fail
InjectFault ==
    /\ faultsLeft > 0
    /\ ~fault
    /\ \E w \in Workers : pc[w] \notin {"idle", "done"}
    /\ fault' = TRUE
    /\ faultsLeft' = faultsLeft - 1
    /\ UNCHANGED <<db, accessLog, inbound, storage, now, pc, cand, fp,
                   userData, fileSize, duration, logLeft, watchLeft, banned, movedFor, obs>>
    /\ UNCHANGED <<streamerVars, converterVars>>

(* ---- the /stream handler, one step per directory or file call ---- *)

\* a request arrives and takes the mutex
Request ==
    /\ hpc = "idle"
    /\ hpc' = "pick"
    /\ UNCHANGED <<streamDir, openable, lastStreamedFile, filePath, attempt,
                   sent, notReady>>
    /\ UNCHANGED <<uploaderVars, converterVars>>

\* getOldestFile: with no .ogg file the handler sleeps and tries again,
\* otherwise isFileReady is entered with i = 0
Pick ==
    /\ hpc = "pick"
    /\ LET oldest == getOldestFile(streamDir) IN
         IF oldest = ""
         THEN UNCHANGED <<hpc, filePath, attempt>>
         ELSE /\ filePath' = oldest
              /\ attempt' = 0
              /\ hpc' = "probe"
    /\ UNCHANGED <<streamDir, openable, lastStreamedFile, sent, notReady>>
    /\ UNCHANGED <<uploaderVars, converterVars>>

\* getOldestFile: os.ReadDir fails; the handler answers 500 and returns
PickError ==
    /\ hpc = "pick"
    /\ hpc' = "idle"
    /\ UNCHANGED <<streamDir, openable, lastStreamedFile, filePath, attempt,
                   sent, notReady>>
    /\ UNCHANGED <<uploaderVars, converterVars>>

\* isFileReady: one pass of the loop, an os.Open that returns true when it
\* succeeds and otherwise logs, sleeps and counts
OpenAttempt ==
    /\ hpc = "probe"
    /\ MoreAttempts(attempt)
    /\ IF OpenOk(streamDir, openable, filePath)
       THEN hpc' = "stream" /\ UNCHANGED attempt
       ELSE attempt' = attempt + 1 /\ UNCHANGED hpc
    /\ UNCHANGED <<streamDir, openable, lastStreamedFile, filePath, sent,
                   notReady>>
    /\ UNCHANGED <<uploaderVars, converterVars>>

\* isFileReady returns false after the loop; the handler logs "Skipping"
\* and continues with the next pass of its own loop
NotReady ==
    /\ hpc = "probe"
    /\ ~MoreAttempts(attempt)
    /\ hpc' = "pick"
    /\ notReady' = notReady \cup {filePath}
    /\ UNCHANGED <<streamDir, openable, lastStreamedFile, filePath, attempt,
                   sent>>
    /\ UNCHANGED <<uploaderVars, converterVars>>

\* streamFile: the file is opened and written to the response; an error
\* ends the request with 500
Stream ==
    /\ hpc = "stream"
    /\ IF OpenOk(streamDir, openable, filePath)
       THEN hpc' = "remove" /\ sent' = sent \cup {filePath}
       ELSE hpc' = "idle" /\ UNCHANGED sent
    /\ UNCHANGED <<streamDir, openable, lastStreamedFile, filePath, attempt,
                   notReady>>
    /\ UNCHANGED <<uploaderVars, converterVars>>

\* after streaming: the file streamed before is removed, this one is
\* remembered, the loop ends and the mutex is released
RemoveLast ==
    /\ hpc = "remove"
    /\ streamDir' = IF lastStreamedFile # ""
                    THEN streamDir \ {lastStreamedFile} ELSE streamDir
    /\ lastStreamedFile' = filePath
    /\ hpc' = "idle"
    /\ UNCHANGED <<openable, filePath, attempt, sent, notReady>>
    /\ UNCHANGED <<uploaderVars, converterVars>>

\* the streamer on its own: a file appears in its storage directory, put
\* there by the converter (ConvConvert) or otherwise; the converter names
\* each file it writes by a new UUID, so no name comes twice
Arrive(f) ==
    /\ f \notin streamDir
    /\ f \notin sent
    /\ streamDir' = streamDir \cup {f}
    /\ UNCHANGED <<openable, lastStreamedFile, hpc, filePath, attempt, sent,
                   notReady>>
    /\ UNCHANGED <<uploaderVars, converterVars>>

\* a file becomes impossible, or possible again, to open
SetOpenable(f) ==
    /\ openable' = IF f \in openable THEN openable \ {f} ELSE openable \cup {f}
    /\ UNCHANGED <<streamDir, lastStreamedFile, hpc, filePath, attempt, sent,
                   notReady>>
    /\ UNCHANGED <<uploaderVars, converterVars>>

\* one contributor's key and an unreadable one
OneKeyRefs == {"keyA", "keyBad"}

\* the program with nothing in the inbound directory: the stdin loop and
\* the log-tail goroutine evaluate candidates of one contributor,
\* interleaved
Next ==
    \/ (\E w \in Workers, k \in OneKeyRefs, f \in Files : Begin(w, k, f))
    \/ \E w \in Workers : ProcessStep(w)
    \/ Tick
Spec == Init /\ [][Next]_vars

\* the program when auth.log holds no transfer line: one evaluation at a
\* time, by the stdin loop, for any of the keys
SeqNext ==
    \/ (\E w \in Workers, k \in KeyRefs, f \in Files : Begin(w, k, f))
         
    \/ \E w \in Workers : ProcessStep(w)
    \/ Tick
SpecSeq == InitSeq /\ [][SeqNext]_vars

\* one evaluation at a time, and database and file-system calls may fail
FaultNext ==
    \/ (\E w \in Workers, k \in OneKeyRefs, f \in Files : Begin(w, k, f))
         
    \/ \E w \in Workers : ProcessStep(w)
    \/ Tick
    \/ InjectFault
SpecSeqFault == InitFault /\ [][FaultNext]_vars

\* monitorSSHLogs alone: auth.log holds lines of any shape, sshd appends
\* more, and the scanner reaches end-of-file
InitTail ==
    InitProgram /\ logLeft = MaxLogLines /\ watchLeft = {} /\ faultsLeft = 0
TailNext ==
    \/ \E line \in LogLines : ScanLine(line)
    \/ \E w \in Workers : ProcessStep(w)
    \/ Eof
    \/ AppendLine
    \/ Tick
SpecTail == InitTail /\ [][TailNext]_vars

\* the streamer alone: requests to /stream, files arriving in its storage
\* directory, files that cannot be opened for a while
StreamNext ==
    \/ Request
    \/ Pick
    \/ PickError
    \/ OpenAttempt
    \/ NotReady
    \/ Stream
    \/ RemoveLast
    \/ \E f \in StreamFiles : Arrive(f)
    \/ \E f \in StreamFiles : SetOpenable(f)
SpecStream == InitSeq /\ [][StreamNext]_vars
\* the same, with the handler's goroutine scheduled: a step of the handler
\* that stays possible is taken (a failing os.ReadDir, files arriving and
\* files becoming openable are the environment's and need not happen)
SpecStreamFair ==
    /\ SpecStream
    /\ WF_vars(Pick) /\ WF_vars(OpenAttempt) /\ WF_vars(NotReady)
    /\ WF_vars(Stream) /\ WF_vars(RemoveLast)

(* ---- the converter: processFiles, one step per file-system call ---- *)
\* ioutil.ReadDir at the top of the outer loop; with no entry the converter
\* sleeps and reads again
ConvRead ==
    /\ cpc = "read"
    /\ IF uploadDir = {}
       THEN UNCHANGED <<cpc, entries>>
       ELSE entries' = ReadDir(uploadDir) /\ cpc' = "loop"
    /\ UNCHANGED <<uploadDir, cfile, convResult>>
    /\ UNCHANGED <<uploaderVars, streamerVars>>
\* ioutil.ReadDir fails: processFiles returns the error and main exits
ConvReadError ==
    /\ cpc = "read"
    /\ cpc' = "exited"
    /\ UNCHANGED <<uploadDir, entries, cfile, convResult>>
    /\ UNCHANGED <<uploaderVars, streamerVars>>
\* where the inner loop goes for an entry that is there: an unsupported
\* extension is deleted, an accepted one converted
AfterStat(e) ==
    IF ToLower(Ext(e)) \notin acceptedTypes THEN "removeUnsupported" ELSE "uuid"
\* the inner loop takes the next entry: a directory is skipped, an entry
\* that os.Stat no longer finds is skipped; after the last entry the outer
\* loop reads the directory again
ConvVisit ==
    /\ cpc = "loop"
    /\ IF entries = <<>>
       THEN cpc' = "read" /\ UNCHANGED <<entries, cfile, convResult>>
       ELSE LET e == Head(entries) IN
            /\ entries' = Tail(entries)
            /\ IF IsDir(e)
               THEN UNCHANGED <<cpc, cfile, convResult>>
               ELSE /\ cfile' = e
                    /\ convResult' = "none"
                    /\ cpc' = IF e \notin uploadDir THEN "loop"
                              ELSE AfterStat(e)
    /\ UNCHANGED uploadDir
    /\ UNCHANGED <<uploaderVars, streamerVars>>
\* os.Remove of a file whose extension is not accepted
ConvRemoveUnsupported ==
    /\ cpc = "removeUnsupported"
    /\ uploadDir' = uploadDir \ {cfile}
    /\ cpc' = "loop"
    /\ UNCHANGED <<entries, cfile, convResult>>
    /\ UNCHANGED <<uploaderVars, streamerVars>>
\* generateUUID: rand.Read succeeds, or fails and processFiles returns
ConvUuid(ok) ==
    /\ cpc = "uuid"
    /\ cpc' = IF ok THEN "convert" ELSE "exited"
    /\ UNCHANGED <<uploadDir, entries, cfile, convResult>>
    /\ UNCHANGED <<uploaderVars, streamerVars>>
\* variant: the file is removed whatever convertFile returned
AfterConvert_Always(result) == "remove"
\* processFiles after convertFile: on an error the message and continue
AfterConvert(result) == IF result = "ok" THEN "remove" ELSE "loop"
\* the names outputPath can have: uuid + ".ogg" is a name the stream
\* directory has not held, and the file written now is newer than the
\* .ogg files there
NewOutputs ==
    {f \in StreamFiles :
        /\ HasOggSuffix(f)
        /\ f \notin streamDir /\ f \notin sent
        /\ \A g \in streamDir : HasOggSuffix(g) => ModTime(g) < ModTime(f)}
\* convertFile: ffmpeg runs and succeeds or fails; it fails on an input
\* that is no longer there. out is the file ffmpeg leaves at outputPath in
\* the stream directory: the converted file when it succeeds, a partial
\* file or none ("") when it fails
ConvConvert(ok, out) ==
    /\ cpc = "convert"
    /\ ok => (cfile \in uploadDir /\ out # "")
    /\ out # "" => out \in NewOutputs
    /\ convResult' = IF ok THEN "ok" ELSE "failed"
    /\ cpc' = AfterConvert(convResult')
    /\ streamDir' = IF out = "" THEN streamDir ELSE streamDir \cup {out}
    /\ UNCHANGED <<uploadDir, entries, cfile>>
    /\ UNCHANGED <<openable, lastStreamedFile, hpc, filePath, attempt, sent,
                   notReady>>
    /\ UNCHANGED uploaderVars
\* os.Remove of the file that was converted
ConvRemove ==
    /\ cpc = "remove"
    /\ uploadDir' = uploadDir \ {cfile}
    /\ cpc' = "loop"
    /\ UNCHANGED <<entries, cfile, convResult>>
    /\ UNCHANGED <<uploaderVars, streamerVars>>
\* an entry appears in the upload directory
Drop(e) ==
    /\ e \notin uploadDir
    /\ uploadDir' = uploadDir \cup {e}
    /\ UNCHANGED <<cpc, entries, cfile, convResult>>
    /\ UNCHANGED <<uploaderVars, streamerVars>>
\* an entry is taken out of the upload directory by something else
Vanish(e) ==
    /\ e \in uploadDir
    /\ uploadDir' = uploadDir \ {e}
    /\ UNCHANGED <<cpc, entries, cfile, convResult>>
    /\ UNCHANGED <<uploaderVars, streamerVars>>
\* the converter alone
ConvNext ==
    \/ ConvRead
    \/ ConvReadError
    \/ ConvVisit
    \/ ConvRemoveUnsupported
    \/ \E ok \in BOOLEAN : ConvUuid(ok)
    \/ \E ok \in BOOLEAN, out \in StreamFiles \cup {""} : ConvConvert(ok, out)
    \/ ConvRemove
    \/ \E e \in UploadEntries : Drop(e)
    \/ \E e \in UploadEntries : Vanish(e)
SpecConv == InitSeq /\ [][ConvNext]_vars

\* main: scanner.Scan() returns false at end-of-input on stdin, the loop
\* ends and main returns, which ends the process and with it every goroutine,
\* wherever it is
StdinEof ==
    /\ pc["stdin"] = "idle"
    /\ pc' = [w \in Workers |-> "exited"]
    /\ UNCHANGED <<db, accessLog, inbound, storage, now, cand, fp, userData,
                   fileSize, duration, fault, faultsLeft, logLeft, watchLeft, banned,
                   movedFor, obs>>
    /\ UNCHANGED <<streamerVars, converterVars>>
\* the program started with a stdin that delivers no line and then ends,
\* while the log-tail goroutine reads auth.log and the directory watcher
\* reports the file in the inbound directory
MainNext ==
    \/ \E line \in LogLines : ScanLine(line)
    \/ (\E k \in OneKeyRefs, f \in Files : monitorInboundDirectory(k, f))
    \/ \E w \in Workers : ProcessStep(w)
    \/ Eof
    \/ AppendLine
    \/ Tick
    \/ StdinEof
SpecMain == InitThree /\ [][MainNext]_vars

\* three contributors at once: the stdin loop, the log-tail goroutine and
\* the directory watcher each evaluate candidates of another contributor,
\* interleaved
ThreeNext ==
    \/ \E f \in Files : Begin("stdin", "keyA", f)
    \/ \E line \in LogLines : line.path /\ Begin("sshlog", "keyB", line.file)
    \/ \E f \in Files : monitorInboundDirectory("keyC", f)
    \/ \E w \in Workers : ProcessStep(w)
SpecThree == InitThree /\ [][ThreeNext]_vars
(* ======================= properties ======================= *)

Rejections == {"RejectedUnsupportedType", "RejectedSizeQuota", "RejectedAirtimeQuota"}
\* the audit text of a rejection
ReasonOf(o) ==
    CASE o = "RejectedUnsupportedType" -> "Attempted to upload unsupported file type"
      [] o = "RejectedSizeQuota" -> "Exceeded daily upload size limit"
      [] OTHER -> "Exceeded daily airtime limit"
\* a file's size in whole megabytes and its duration in whole seconds
WholeMB(f) == FileBytes(f) \div MiB
WholeSeconds(f) == FfprobeMillis(f) \div 1000
\* the whole megabytes moved into storage for identity u
RECURSIVE SumMB(_)
SumMB(S) ==
    IF S = {} THEN 0
    ELSE LET f == CHOOSE x \in S : TRUE IN WholeMB(f) + SumMB(S \ {f})
StoredMB(u) == SumMB({f \in storage : movedFor[f].user = u})
\* the evaluation of w met the strike threshold
ReachedStrikeThreshold(w) ==
    /\ obs[w].outcome \in Rejections
    /\ obs[w].loaded.strikes + 1 >= StrikesBeforeTimeOut

\* C1: after every completed evaluation (and in between) the strikes stored
\* for any identity are in 0 .. StrikesBeforeTimeOut-1, and an evaluation
\* whose strike reaches the threshold leaves 0 in the row it wrote.
C1_StrikesBelowThreshold ==
    /\ \A u \in DOMAIN db :
          db[u].strikes >= 0 /\ db[u].strikes < StrikesBeforeTimeOut
    /\ \A w \in Workers :
          (pc[w] = "done" /\ ReachedStrikeThreshold(w) /\ fp[w] \in DOMAIN db)
              => db[fp[w]].strikes = 0
\* an evaluation that started with StrikesBeforeTimeOut-1 strikes has been
\* rejected and has completed, the row still there
C1_Witness ==
    \E w \in Workers :
        /\ pc[w] = "done"
        /\ ReachedStrikeThreshold(w)
        /\ obs[w].loaded.strikes = StrikesBeforeTimeOut - 1
        /\ fp[w] \in DOMAIN db
        /\ db[fp[w]].timeouts = obs[w].loaded.timeouts + 1

\* C2 (as claimed): every row that exists has 0 <= timeouts <
\* TimeOutsBeforeBan, whatever the evaluations under way have written.
C2_TimeoutsBelowBan ==
    \A u \in DOMAIN db :
        db[u].timeouts >= 0 /\ db[u].timeouts < TimeOutsBeforeBan

\* C3 (as claimed): when an evaluation persists its record, the row it
\* overwrites is the row it loaded (or last wrote itself): no write of
\* another evaluation is overwritten.
C3_NoLostUpdate ==
    [][\A w \in Workers :
          (/\ pc[w] \in {"timeOutUpdate", "update", "persist"}
           /\ pc'[w] # pc[w]
           /\ fp[w] \in DOMAIN db)
          => (obs[w].seen.present /\ db[fp[w]] = obs[w].seen.row)]_vars

\* C4: the checks run type, then size, then airtime, and the first failing
\* one decides: a file of an unaccepted type is never stat'ed nor probed and
\* the quota columns stay as loaded; a file over the size quota is never
\* probed; the probe is made only after the size check has passed.
C4_CheckOrder ==
    \A w \in Workers :
        LET f == cand[w].file
            o == obs[w].outcome IN
        /\ obs[w].statted => checkFileType(f)
        /\ obs[w].probed =>
              /\ obs[w].statted
              /\ obs[w].loaded.daily_upload + calculateFileSize(f)
                    <= MaxUserUploadSize
        /\ (pc[w] \in {"rejectType", "size"} /\ ~checkFileType(f))
              => pc[w] = "rejectType"
        /\ o = "RejectedUnsupportedType" =>
              /\ ~checkFileType(f)
              /\ ~obs[w].statted /\ ~obs[w].probed
              /\ userData[w].DailyUpload = obs[w].loaded.daily_upload
              /\ userData[w].DailyAirtime = obs[w].loaded.daily_airtime
              /\ (pc[w] = "done" /\ fp[w] \in DOMAIN db) =>
                    /\ db[fp[w]].daily_upload = obs[w].loaded.daily_upload
                    /\ db[fp[w]].daily_airtime = obs[w].loaded.daily_airtime
        /\ o = "RejectedSizeQuota" =>
              /\ obs[w].statted /\ ~obs[w].probed
              /\ obs[w].loaded.daily_upload + calculateFileSize(f)
                    > MaxUserUploadSize
        /\ o = "RejectedAirtimeQuota" => obs[w].statted /\ obs[w].probed
        /\ o = "Admitted" => obs[w].statted /\ obs[w].probed
\* a type rejection has completed for a file that would also have failed the
\* size check: the type check came first and nothing else was evaluated
C4_Witness ==
    \E w \in Workers :
        /\ pc[w] = "done"
        /\ obs[w].outcome = "RejectedUnsupportedType"
        /\ ~obs[w].statted
        /\ obs[w].loaded.daily_upload + calculateFileSize(cand[w].file)
              > MaxUserUploadSize

\* C5: a failed move leaves the identity's row as it was loaded and writes no
\* "File uploaded successfully" entry; and at all times a row is charged no
\* more megabytes than were moved into storage for its identity.
C5_MoveFailureNotCharged ==
    /\ \A w \in Workers :
          (pc[w] = "done" /\ obs[w].outcome = "MoveError") =>
              /\ \A i \in 1..Len(obs[w].wrote) :
                    obs[w].wrote[i] # "File uploaded successfully"
              /\ fp[w] \in DOMAIN db => db[fp[w]] = obs[w].loaded
    /\ \A u \in DOMAIN db : db[u].daily_upload <= StoredMB(u)
\* a move has failed after the record in memory was charged, and the
\* evaluation has ended with the stored row not charged
C5_Witness ==
    \E w \in Workers :
        /\ pc[w] = "done"
        /\ obs[w].outcome = "MoveError"
        /\ cand[w].file \in inbound
        /\ fp[w] \in DOMAIN db
        /\ userData[w].DailyUpload > db[fp[w]].daily_upload

\* C6 (as claimed): an admission adds the file's whole megabytes to
\* daily_upload and its whole seconds to daily_airtime, stamps last_upload,
\* and leaves strikes and timeouts as loaded.
C6_AdmissionCharges ==
    \A w \in Workers :
        (pc[w] = "done" /\ obs[w].outcome = "Admitted") =>
            /\ fp[w] \in DOMAIN db
            /\ db[fp[w]].daily_upload =
                  obs[w].loaded.daily_upload + WholeMB(cand[w].file)
            /\ db[fp[w]].daily_airtime =
                  obs[w].loaded.daily_airtime + WholeSeconds(cand[w].file)
            /\ db[fp[w]].last_upload.valid
            /\ db[fp[w]].last_upload.time >= 1
            /\ db[fp[w]].last_upload.time <= now
            /\ db[fp[w]].strikes = obs[w].loaded.strikes
            /\ db[fp[w]].timeouts = obs[w].loaded.timeouts

\* C7 (as claimed): a rejection that brings the strikes to the threshold
\* increments timeouts, resets strikes, and passes to logAction first the
\* reason and then "User timed out".
C7_TimeoutEscalation ==
    \A w \in Workers :
        (pc[w] = "done" /\ ReachedStrikeThreshold(w)) =>
            /\ userData[w].Timeouts = obs[w].loaded.timeouts + 1
            /\ userData[w].Strikes = 0
            /\ obs[w].wrote = <<ReasonOf(obs[w].outcome), "User timed out">>

\* C8: the evaluation whose timeout reaches TimeOutsBeforeBan deletes the
\* row, which stays absent to the end of that evaluation and until the next
\* upload of the identity, and ends with "User banned" in the audit file;
\* the next upload of that identity creates the default row (all counters 0,
\* last_upload NULL) and is evaluated on a zero record.
C8_BanDeletesRow ==
    /\ \A u \in banned : u \notin DOMAIN db
    /\ \A w \in Workers :
          /\ (obs[w].escalation = "ban") => fp[w] \notin DOMAIN db
          /\ (pc[w] = "done" /\ obs[w].escalation = "ban") =>
                /\ Len(accessLog) >= 1
                /\ accessLog[Len(accessLog)] =
                      [user |-> fp[w], action |-> "User banned"]
          /\ (obs[w].afterBan /\ pc[w] # "insert") =>
                /\ obs[w].created
                /\ obs[w].loaded = DefaultRow
                /\ ~obs[w].loaded.last_upload.valid
          /\ (obs[w].afterBan /\ pc[w] \in {"rejectType", "size"}) =>
                /\ userData[w] = ZeroUserData
                /\ db[fp[w]] = DefaultRow
\* an upload of a banned identity has been evaluated to its end
C8_Witness ==
    \E w \in Workers :
        /\ pc[w] = "done"
        /\ obs[w].afterBan
        /\ obs[w].created
        /\ fp[w] \in DOMAIN db

\* C9 (as claimed): after a type rejection the file is neither at its
\* candidate path nor in storage.
C9_UnsupportedDeleted ==
    \A w \in Workers :
        (pc[w] = "done" /\ obs[w].outcome = "RejectedUnsupportedType") =>
            /\ cand[w].file \notin inbound
            /\ cand[w].file \notin storage

\* C10: after a size or airtime rejection the file is still at its candidate
\* path and not in storage.
C10_QuotaRejectLeavesFile ==
    \A w \in Workers :
        (obs[w].outcome \in {"RejectedSizeQuota", "RejectedAirtimeQuota"}) =>
            /\ cand[w].file \in inbound
            /\ cand[w].file \notin storage
\* a size rejection has completed
C10_Witness ==
    \E w \in Workers :
        /\ pc[w] = "done"
        /\ obs[w].outcome = "RejectedSizeQuota"
        /\ cand[w].file \in inbound

\* C11 (as claimed): end-of-file does not end monitorSSHLogs: whenever
\* auth.log holds a line it has not read, the goroutine is still there to
\* read it.
C11_TailKeepsReading ==
    ~(pc["sshlog"] = "returned" /\ logLeft > 0)

\* C19: a line read by monitorSSHLogs that starts no evaluation changes
\* neither the ledger, the audit file nor any file, and every evaluation
\* that monitorSSHLogs starts comes from a line with both markers, the
\* SHA256 token and the quoted path, with that token and that path as the
\* candidate.
C19_NonMatchingLinesSkipped ==
    [][/\ (pc["sshlog"] = "idle" /\ logLeft' < logLeft /\ pc'["sshlog"] = "idle")
            => /\ UNCHANGED <<db, accessLog, inbound, storage, cand, fp, userData>>
               /\ obs'["sshlog"].prev \in {"ignoredLine", "malformedLine"}
       /\ (pc["sshlog"] = "idle" /\ pc'["sshlog"] \notin {"idle", "returned"})
            => LET l == obs'["sshlog"].line IN
               /\ l.accepted /\ l.scp /\ l.sha /\ l.path
               /\ cand'["sshlog"] = [key |-> l.token, file |-> l.file]]_vars
\* a line with both markers that does not parse was passed over, and the line
\* after it has been evaluated to a decision
C19_Witness ==
    /\ pc["sshlog"] = "done"
    /\ obs["sshlog"].prev = "malformedLine"
    /\ obs["sshlog"].outcome \in Rejections \cup {"Admitted"}

\* C12 (as claimed): the audit file only grows: every call of logAction
\* whose write succeeds adds one entry, and the entries already there stay,
\* in their order.
C12_AuditAppendOnly ==
    [][/\ Len(accessLog') >= Len(accessLog)
       /\ \A i \in 1..Len(accessLog) : accessLog'[i] = accessLog[i]
       /\ (\E w \in Workers : /\ pc[w] \in WritePcs /\ pc'[w] # pc[w]
                                /\ "log" \notin obs'[w].failed)
             => Len(accessLog') = Len(accessLog) + 1]_vars

\* C13: a candidate whose key material cannot be fingerprinted ends at once:
\* the step that takes it up changes neither the ledger, the audit file nor
\* any file, and the evaluation stands at its end with no identity, no row
\* read or created, no strike, no entry passed to logAction and no probe of
\* the file; the goroutine then returns to its loop.  No row ever exists for
\* the empty identity.
C13_CredentialErrorDrops ==
    [][/\ \A w \in Workers :
            (pc[w] = "idle" /\ pc'[w] \notin {"idle", "returned"}
                /\ fingerprintSSHKey(cand'[w].key).err)
            => /\ pc'[w] = "done"
               /\ obs'[w].outcome = "CredentialUnreadable"
               /\ fp'[w] = ""
               /\ userData'[w] = ZeroUserData
               /\ obs'[w].wrote = <<>>
               /\ ~obs'[w].created /\ ~obs'[w].seen.present
               /\ ~obs'[w].statted /\ ~obs'[w].probed
               /\ "Error calculating SSH key fingerprint" \in obs'[w].printed
               /\ UNCHANGED <<db, accessLog, inbound, storage>>
       /\ \A w \in Workers :
            (obs[w].outcome = "CredentialUnreadable" /\ pc'[w] # pc[w])
            => /\ pc[w] = "done" /\ pc'[w] = "idle"
               /\ UNCHANGED <<db, accessLog, inbound, storage>>
       /\ "" \notin DOMAIN db']_vars
\* after a candidate with an unreadable key was dropped, the next candidate
\* of the same source has been evaluated to a decision
C13_Witness ==
    \E w \in Workers :
        /\ pc[w] = "done"
        /\ obs[w].prev = "credentialError"
        /\ obs[w].outcome \in Rejections \cup {"Admitted"}
        /\ db # <<>>

\* the evaluation of w is of a file that was admitted for the same identity
\* before and is no longer at its candidate path
ReEvaluation(w) ==
    /\ pc[w] \notin {"idle", "returned"}
    /\ fp[w] # ""
    /\ cand[w].file \in storage
    /\ cand[w].file \notin inbound
    /\ movedFor[cand[w].file].user = fp[w]
    /\ obs[w].outcome # "Admitted"

\* C14: evaluating again a file that was admitted for the identity stops at
\* the size computation (the path no longer exists): nothing is passed to
\* logAction, the duration is not probed, the row is left as it was loaded
\* (no strike, no charge) and the file stays in storage.
C14_ReEvaluationNoEffect ==
    \A w \in Workers :
        ReEvaluation(w) =>
            /\ pc[w] \in {"select", "insert", "size", "done"}
            /\ obs[w].wrote = <<>>
            /\ ~obs[w].probed
            /\ obs[w].escalation = "none"
            /\ obs[w].seen.present => db[fp[w]] = obs[w].loaded
            /\ pc[w] = "done" =>
                  /\ obs[w].outcome = "SizeError"
                  /\ db[fp[w]] = obs[w].loaded
\* the second evaluation of an admitted file has ended, the row holding the
\* charge of the first
C14_Witness ==
    \E w \in Workers :
        /\ ReEvaluation(w)
        /\ pc[w] = "done"
        /\ ~obs[w].created
        /\ db[fp[w]].daily_upload = calculateFileSize(cand[w].file)

\* C15 (as claimed): while a row exists, no write lowers its timeouts.
C15_TimeoutsMonotonic ==
    [][\A u \in DOMAIN db \cap DOMAIN db' :
          db'[u].timeouts >= db[u].timeouts]_vars

\* the messages log.Printf writes for the calls that are not ledger writes
OtherMessages ==
    {"Error calculating SSH key fingerprint", "Error fetching user data",
     "Error calculating file size", "Error calculating audio duration",
     "Error moving file to storage directory", "Failed to log action"}

\* C16: a statement of the ledger store that fails ends at most the
\* evaluation under way: no goroutine ever leaves processUpload for anything
\* but its caller's loop, a failed getUserData ends the evaluation with the
\* error printed, and a failed UPDATE or DELETE lets it run to its end.
C16_StoreFailureNotFatal ==
    \A w \in Workers :
        /\ pc[w] \notin {"exited", "returned"}
        /\ obs[w].failed \cap {"select", "insert"} # {} =>
              /\ pc[w] = "done"
              /\ obs[w].outcome = "LedgerError"
              /\ "Error fetching user data" \in obs[w].printed
        /\ (obs[w].failed \cap {"update", "delete"} # {}
               /\ obs[w].failed \cap {"stat", "probe", "rename"} = {}) =>
              obs[w].outcome \in Rejections \cup {"Admitted"}
\* after an evaluation in which a ledger statement failed, the same source's
\* next candidate has been evaluated to a decision
C16_Witness ==
    \E w \in Workers :
        /\ pc[w] = "done"
        /\ obs[w].prev = "storeFailure"
        /\ obs[w].outcome \in Rejections \cup {"Admitted"}
        /\ obs[w].failed = {}

\* C17 (as claimed): every failed UPDATE and every failed DELETE of an
\* evaluation is reported by a log message of its own.
C17_WriteFailureReported ==
    \A w \in Workers :
        /\ "delete" \in obs[w].failed =>
              "Failed to delete user from database" \in obs[w].printed
        /\ "update" \in obs[w].failed =>
              obs[w].printed \
                 (OtherMessages \cup {"Failed to delete user from database"}) # {}

\* what a completed evaluation has to have done, given the row it loaded and
\* its decision
DecisionCarriedOut(w) ==
    LET f == cand[w].file
        l == ScanRow(obs[w].loaded)
        o == obs[w].outcome IN
    IF o = "Admitted"
    THEN /\ f \in storage /\ f \notin inbound
         /\ fp[w] \in DOMAIN db
         /\ db[fp[w]] = RowOf(charge(l, calculateFileSize(f),
                                     calculateAudioDuration(f),
                                     userData[w].LastUpload))
    ELSE IF o \in Rejections
    THEN /\ f \in inbound
         /\ IF l.Strikes + 1 < StrikesBeforeTimeOut
            THEN /\ obs[w].escalation = "none"
                 /\ fp[w] \in DOMAIN db
                 /\ db[fp[w]] = RowOf(strike(l))
            ELSE IF l.Timeouts + 1 < TimeOutsBeforeBan
            THEN /\ obs[w].escalation = "timeout"
                 /\ fp[w] \in DOMAIN db
                 /\ db[fp[w]] = RowOf(timeOutUserData(strike(l)))
            ELSE /\ obs[w].escalation = "ban"
                 /\ fp[w] \notin DOMAIN db
    ELSE FALSE

\* C18: a failed write of an audit entry is reported, and an evaluation in
\* which nothing else failed ends with the same row, escalation and file
\* handling as its decision requires when the writes succeed.
C18_LogFailureDoesNotAbort ==
    \A w \in Workers :
        /\ "log" \in obs[w].failed => "Failed to log action" \in obs[w].printed
        /\ (pc[w] = "done" /\ obs[w].failed \subseteq {"log"}
               /\ obs[w].outcome # "CredentialUnreadable")
              => DecisionCarriedOut(w)
\* an evaluation has ended in which a write of the audit file failed, and only
\* that
C18_Witness ==
    \E w \in Workers :
        /\ pc[w] = "done"
        /\ obs[w].failed = {"log"}
        /\ obs[w].escalation = "timeout"
        /\ db[fp[w]].timeouts = 1

\* C20: isFileReady makes at most MaxOpenAttempts attempts: it returns true
\* at the first os.Open that succeeds, counts each failed one, and returns
\* false only after MaxOpenAttempts failures; the handler then goes to its
\* next pass without touching the directory or lastStreamedFile, and any
\* file that leaves the directory has been streamed.
C20_ReadinessProbeBounded ==
    [][/\ attempt' >= 0 /\ attempt' <= MaxOpenAttempts
       /\ (hpc = "probe" /\ hpc' = "stream")
             => /\ OpenOk(streamDir, openable, filePath)
                /\ attempt < MaxOpenAttempts
                /\ attempt' = attempt
       /\ (hpc = "probe" /\ attempt < MaxOpenAttempts
              /\ OpenOk(streamDir, openable, filePath)
              /\ (hpc' # hpc \/ attempt' # attempt))
             => hpc' = "stream"
       /\ (hpc = "probe" /\ attempt' # attempt)
             => /\ ~OpenOk(streamDir, openable, filePath)
                /\ attempt' = attempt + 1
                /\ hpc' = "probe"
       /\ (hpc = "probe" /\ hpc' = "pick")
             => /\ attempt = MaxOpenAttempts
                /\ filePath \in notReady'
                /\ filePath \in streamDir'
                /\ streamDir' = streamDir
                /\ lastStreamedFile' = lastStreamedFile
       /\ \A f \in streamDir \ streamDir' : f \in sent]_vars
\* a file was reported not ready after MaxOpenAttempts failures and skipped;
\* it is still in the directory and a later probe of it has now succeeded
\* after some failed attempts
C20_Witness ==
    /\ hpc = "stream"
    /\ filePath \in notReady
    /\ filePath \in streamDir
    /\ attempt > 0
    /\ filePath \notin sent

\* the decision the checks of section 4.4 give for file f and ledger row r
ReferenceDecision(f, r) ==
    IF Fold(Ext(f)) \notin AcceptedUploadFileTypes
    THEN "RejectedUnsupportedType"
    ELSE IF r.daily_upload + WholeMB(f) > MaxUserUploadSize
    THEN "RejectedSizeQuota"
    ELSE IF r.daily_airtime + WholeSeconds(f) > MaxUserAirtime
    THEN "RejectedAirtimeQuota"
    ELSE "Admitted"

\* C21 (as claimed): every decision of a completed evaluation is the one the
\* reference function gives for the file's extension, whole megabytes and
\* whole seconds and the row loaded: a counter brought exactly to its
\* ceiling admits, one brought above it rejects.
C21_DecisionIsReference ==
    \A w \in Workers :
        (pc[w] = "done" /\ obs[w].outcome \in Rejections \cup {"Admitted"})
            => obs[w].outcome = ReferenceDecision(cand[w].file, obs[w].loaded)

\* C22 (as claimed): a completed rejection leaves daily_upload,
\* daily_airtime and last_upload of the row as loaded, and below the strike
\* threshold the row's strikes is the loaded value plus 1 and its timeouts
\* is unchanged.
C22_RejectionFrame ==
    \A w \in Workers :
        (pc[w] = "done" /\ obs[w].outcome \in Rejections
            /\ fp[w] \in DOMAIN db) =>
            /\ db[fp[w]].daily_upload = obs[w].loaded.daily_upload
            /\ db[fp[w]].daily_airtime = obs[w].loaded.daily_airtime
            /\ db[fp[w]].last_upload = obs[w].loaded.last_upload
            /\ obs[w].loaded.strikes + 1 < StrikesBeforeTimeOut =>
                  /\ db[fp[w]].strikes = obs[w].loaded.strikes + 1
                  /\ db[fp[w]].timeouts = obs[w].loaded.timeouts

\* the whole megabytes moved into storage for identity u since its current
\* row was created
StoredSinceRowMB(u) ==
    SumMB({f \in storage : movedFor[f].user = u /\ movedFor[f].sameRow})
\* no evaluation of identity u is between its load and its return
NoEvaluationOf(u) ==
    \A w \in Workers : fp[w] = u => pc[w] \in {"idle", "done", "returned"}

\* C23 (as claimed): for every identity the whole megabytes of the files
\* moved into storage for it since its current row was created never exceed
\* MaxUserUploadSize, and once its evaluations have returned they equal the
\* row's daily_upload, also when evaluations run concurrently.
C23_StoredWithinQuota ==
    \A u \in DOMAIN db :
        /\ StoredSinceRowMB(u) <= MaxUserUploadSize
        /\ NoEvaluationOf(u) => db[u].daily_upload = StoredSinceRowMB(u)

\* the row of identity u in table, or that it has none
RowAt(table, u) ==
    IF u \in DOMAIN table THEN [present |-> TRUE, row |-> table[u]]
    ELSE [present |-> FALSE, row |-> DefaultRow]

\* C24: a step changes the row of an identity (creates, rewrites or deletes
\* it) only as a step of an evaluation of that identity; and with the three
\* goroutines evaluating candidates of different identities, every write an
\* evaluation makes finds its identity's row as that evaluation last read or
\* wrote it, whatever the interleaving.
C24_RowsIndependent ==
    [][/\ \A u \in Fingerprints :
              RowAt(db, u) # RowAt(db', u) =>
                  \E w \in Workers : fp[w] = u /\ pc[w] # pc'[w]
       /\ \A w \in Workers :
              (db' # db /\ pc[w] # pc'[w]) =>
                  /\ RowAt(db, fp[w]) = obs[w].seen
                  /\ \A u \in Fingerprints \ {fp[w]} :
                         RowAt(db, u) = RowAt(db', u)]_vars
\* the three goroutines are each in an evaluation of another identity: one
\* has rewritten its row and the other two are about to rewrite theirs
C24_Witness ==
    \E w \in Workers :
        /\ pc[w] = "done" /\ obs[w].outcome \in Rejections \cup {"Admitted"}
        /\ fp[w] \in DOMAIN db /\ db[fp[w]] # DefaultRow
        /\ \A v \in Workers \ {w} :
              /\ fp[v] \in DOMAIN db \ {fp[w]}
              /\ pc[v] \in {"update", "persist", "timeOutUpdate"}
        /\ \A v, x \in Workers : v # x => fp[v] # fp[x]

\* C25: when os.Stat or ffprobe fails for a file of an accepted type, the
\* evaluation returns at once with no decision: the failing step and the
\* evaluation as a whole write no audit entry, add no strike and no charge,
\* leave the file where it is and leave the identity's row as loaded (the
\* default row when this evaluation created it).
C25_MeasureFailureNoDecision ==
    [][\A w \in Workers :
          (\/ pc[w] = "size" /\ pc'[w] # pc[w] /\ "stat" \in obs'[w].failed
           \/ pc[w] = "duration" /\ pc'[w] # pc[w] /\ "probe" \in obs'[w].failed)
          => /\ pc'[w] = "done"
             /\ obs'[w].outcome \in {"SizeError", "DurationError"}
             /\ obs'[w].wrote = <<>>
             /\ obs'[w].escalation = "none"
             /\ userData'[w] = ScanRow(obs[w].loaded)
             /\ db' = db /\ db[fp[w]] = obs[w].loaded
             /\ accessLog' = accessLog
             /\ inbound' = inbound /\ storage' = storage]_vars
\* the probe failed in the evaluation that created the identity's row: the
\* default row is all there is, and the file is still at its path
C25_Witness ==
    \E w \in Workers :
        /\ pc[w] = "done" /\ obs[w].outcome = "DurationError"
        /\ obs[w].created /\ db[fp[w]] = DefaultRow
        /\ cand[w].file \in inbound

\* C26 (as claimed): the process does not exit on its own; end-of-input on
\* stdin does not stop the log-tail goroutine, which keeps evaluating the
\* transfer lines still to come.
C26_KeepsRunning ==
    logLeft > 0 => \A w \in Workers : pc[w] # "exited"

\* C27 (as claimed): a file is served to at most one request: a file that
\* streamFile sends in full has not been sent in full before.
C27_ServedOnce ==
    [][(hpc = "stream" /\ hpc' = "remove") => filePath \notin sent]_vars

\* some .ogg file in the directory can be opened
ReadyOggPresent ==
    \E f \in streamDir : HasOggSuffix(f) /\ f \in openable
\* C28 (as claimed): when from some point on the directory always holds a
\* ready .ogg file, every request the handler has taken up completes: a file
\* that never becomes ready does not keep the handler in its loop for ever.
C28_RequestCompletes ==
    (<>[]ReadyOggPresent) => ((hpc # "idle") ~> (hpc = "idle"))

\* C29: the converter takes a file out of its upload directory only when the
\* file's extension is not accepted or convertFile has just succeeded on it;
\* when convertFile fails nothing is removed and the file stays for the
\* next pass.
C29_RemoveOnlyConvertedOrUnsupported ==
    [][/\ (cpc' # cpc /\ uploadDir' # uploadDir) =>
              /\ uploadDir' = uploadDir \ {cfile}
              /\ \/ ToLower(Ext(cfile)) \notin acceptedTypes
                 \/ convResult = "ok"
       /\ (cpc = "convert" /\ convResult' = "failed") =>
              /\ uploadDir' = uploadDir
              /\ cpc' = "loop"]_vars
\* a conversion has failed and the pass has gone on: the file is still in
\* the directory
C29_Witness ==
    /\ cpc \in {"loop", "read"}
    /\ convResult = "failed"
    /\ cfile \in uploadDir
====
